---- MODULE Spec2Model ----
(***************************************************************************)
(* Chat moderation manager of Firebot                                      *)
(* (src/backend/chat/moderation/chat-moderation-manager.js).               *)
(*                                                                         *)
(* The module-level state of the manager (settings, banned words, the      *)
(* worker reference), the persisted documents it loads and saves, the      *)
(* worker threads it spawns and the dispatches suspended in the viewer     *)
(* lookup are the variables; every exported function and every event       *)
(* handler is one action.                                                  *)
(*                                                                         *)
(* Text is a sequence of one-character strings, a chat-message template a  *)
(* sequence of segments in which a placeholder is one segment.  A value    *)
(* that may be undefined in JavaScript is a record with a `defined` flag.  *)
(***************************************************************************)
EXTENDS Integers, Sequences, FiniteSets, TLC

\* ------------------------------------------------------------------ bounds

\* Worker threads ever spawned.
MaxWorkers == 3
\* Messages waiting in one worker's inbound queue.
MaxQueue == 2
\* Entries of the banned-word list.
MaxWords == 1
\* Dispatches suspended in the viewer lookup at one time.
MaxPending == 1

\* -------------------------------------------------------------- text

wFoo == <<"F", "o", "o">>
wfoo == <<"f", "o", "o">>

\* The word texts the frontend sends.
WordTexts == {wFoo, wfoo}

\* String.prototype.toLowerCase on the characters in use.
LowerChar(c) == CASE c = "F" -> "f" [] c = "O" -> "o" [] OTHER -> c

toLowerCase(s) == [i \in DOMAIN s |-> LowerChar(s[i])]

\* The class \w of the URL pattern.
WordChar(c) == c \in {"a", "b", "c", "d", "f", "F", "o", "O", "K", "_"}

\* /[\w]{2,}[.][\w]{2,}/ tested on a fresh RegExp (lastIndex 0): two word
\* characters, a dot, two word characters somewhere in the text.
UrlRegexTest(message) ==
    \E i \in 3..(Len(message) - 2) :
        /\ message[i] = "."
        /\ WordChar(message[i - 2]) /\ WordChar(message[i - 1])
        /\ WordChar(message[i + 1]) /\ WordChar(message[i + 2])

\* String.prototype.replace with a string pattern: the first occurrence only.
Replace(tmpl, placeholder, value) ==
    IF \E i \in DOMAIN tmpl : tmpl[i] = placeholder
    THEN LET k == CHOOSE i \in DOMAIN tmpl :
                      /\ tmpl[i] = placeholder
                      /\ \A j \in 1..(i - 1) : tmpl[j] # placeholder
         IN  [tmpl EXCEPT ![k] = value]
    ELSE tmpl

\* -------------------------------------------------------------- settings

BannedWordListOf(e) == [defined |-> TRUE, enabled |-> e]
NoBannedWordList == [defined |-> FALSE, enabled |-> FALSE]

EmoteLimitOf(e, m) == [defined |-> TRUE, enabled |-> e, max |-> m]
NoEmoteLimit == [defined |-> FALSE, enabled |-> FALSE, max |-> 0]

ViewTimeOf(e, h) == [defined |-> TRUE, enabled |-> e, viewTimeInHours |-> h]
NoViewTime == [defined |-> FALSE, enabled |-> FALSE, viewTimeInHours |-> 0]

UrlModerationOf(e, vt, out) ==
    [defined |-> TRUE, enabled |-> e, viewTime |-> vt, outputMessage |-> out]
NoUrlModeration ==
    [defined |-> FALSE, enabled |-> FALSE, viewTime |-> NoViewTime, outputMessage |-> <<>>]

ExemptRolesOf(r) == [defined |-> TRUE, roles |-> r]
NoExemptRoles == [defined |-> FALSE, roles |-> {}]

SettingsOf(b, e, u, x) ==
    [bannedWordList |-> b, emoteLimit |-> e, urlModeration |-> u, exemptRoles |-> x]

\* The object literal the module starts with.
DefaultSettings ==
    SettingsOf(BannedWordListOf(FALSE), EmoteLimitOf(FALSE, 10),
               UrlModerationOf(FALSE, ViewTimeOf(FALSE, 0), <<>>),
               ExemptRolesOf({}))

\* The values load() backfills.
DefaultEmoteLimit == EmoteLimitOf(FALSE, 10)
DefaultUrlModeration == UrlModerationOf(FALSE, ViewTimeOf(FALSE, 0), <<>>)

\* Object.keys(settings).length > 0
HasKeys(s) ==
    \/ s.bannedWordList.defined \/ s.emoteLimit.defined
    \/ s.urlModeration.defined \/ s.exemptRoles.defined

\* A warning template with both placeholders.
Template == <<"{userName}", " needs ", "{viewTime}", "h">>

\* A warning template that names the author twice.
TemplateTwice == <<"{userName}", " needs ", "{viewTime}", "h, ", "{userName}">>

\* ------------------------------------------------------- banned words

Entry(t) == [text |-> t]

\* getBannedWordsList: the texts of the entries, in order.
getBannedWordsList(bw) == [i \in DOMAIN bw |-> bw[i].text]

\* --------------------------------------------------------------- state

VARIABLES
    chatModerationSettings,  \* the settings object
    bannedWords,             \* bannedWords.words: a sequence of entries
    moderationService,       \* the held worker: 0 is null, else its number
    settingsDb,              \* the persisted settings document
    wordsDb,                 \* the persisted banned-words document
    workers,                 \* per spawned worker: status, inbox, words
    spawned,                 \* how many workers were ever constructed
    errorPending,            \* workers whose 'error' event is not yet delivered
    permitRegistered,        \* registerPermitCommand() was called
    pending,                 \* dispatches suspended in getUserByUsername
    outbox,                  \* ids of the worker's deleteMessage events in flight
    lastOp                   \* the last operation and what it did

vars == <<chatModerationSettings, bannedWords, moderationService, settingsDb,
          wordsDb, workers, spawned, errorPending, permitRegistered, pending,
          outbox, lastOp>>

WorkerIds == 1..MaxWorkers

NoWorker == [status |-> "none", inbox |-> <<>>, words |-> <<>>]

\* What one operation did: the reference it found, how it ended, the calls
\* it made on the chat transport and whether it called postMessage; msg is
\* the id of the message or the number of the worker it was about.
OpOf(op, outcome, stage, msg, deletes, sends, posted) ==
    [op |-> op, outcome |-> outcome, stage |-> stage, msg |-> msg, roles |-> {},
     held |-> moderationService, deletes |-> deletes, sends |-> sends,
     posted |-> posted]

\* The same for a dispatch of chat message m.
DispatchOf(op, outcome, stage, m, deletes, sends, posted) ==
    [OpOf(op, outcome, stage, m.id, deletes, sends, posted) EXCEPT !.roles = m.roles]

\* ------------------------------------------------------- chat messages

tUrl == <<"a", "b", ".", "c", "d">>
tFoo == <<"F", "o", "o", ".", "b">>
tEmojiUrl == <<"*", "a", "b", ".", "c", "d">>
tFooUrl == <<"f", "o", "o", ".", "c", "d">>

TextPart(t) == [type |-> "text", text |-> t]
EmotePart == [type |-> "emote", text |-> <<"K">>]

MessageOf(id, roles, parts, raw) ==
    [isNull |-> FALSE, id |-> id, username |-> "alice", roles |-> roles,
     parts |-> parts, rawText |-> raw]

\* moderateMessage(null)
NullMessage ==
    [isNull |-> TRUE, id |-> 0, username |-> "", roles |-> {}, parts |-> <<>>,
     rawText |-> <<>>]

\* The message bodies: a URL; a banned word and a dot but no URL; one emote
\* and a URL; an emote, an emoji and a URL; a URL with a banned word in it.
Body(id) ==
    CASE id = 1 -> [parts |-> <<TextPart(tUrl)>>, raw |-> tUrl]
      [] id = 2 -> [parts |-> <<TextPart(tFoo)>>, raw |-> tFoo]
      [] id = 3 -> [parts |-> <<EmotePart, TextPart(tUrl)>>, raw |-> <<"K">> \o tUrl]
      [] id = 4 -> [parts |-> <<EmotePart, TextPart(tEmojiUrl)>>,
                    raw |-> <<"K">> \o tEmojiUrl]
      [] id = 5 -> [parts |-> <<TextPart(tFooUrl)>>, raw |-> tFooUrl]

BodyIds == {1, 2, 3, 4}

RoleSets == {{}, {"mod"}}

MessagesOf(ids) ==
    {MessageOf(id, r, Body(id).parts, Body(id).raw) : id \in ids, r \in RoleSets}

\* countEmojis: the characters of class Extended_Pictographic ("*" here).
RECURSIVE countEmojis(_)
countEmojis(str) ==
    IF str = <<>> THEN 0
    ELSE (IF Head(str) = "*" THEN 1 ELSE 0) + countEmojis(Tail(str))

\* parts.filter(p => p.type === "emote").length
RECURSIVE emoteCount(_)
emoteCount(parts) ==
    IF parts = <<>> THEN 0
    ELSE (IF Head(parts).type = "emote" THEN 1 ELSE 0) + emoteCount(Tail(parts))

\* The reduce over the text parts.
RECURSIVE emojiCount(_)
emojiCount(parts) ==
    IF parts = <<>> THEN 0
    ELSE (IF Head(parts).type = "text" THEN countEmojis(Head(parts).text) ELSE 0)
         + emojiCount(Tail(parts))

\* ------------------------------------------------------------ the worker

UpdateMsg(words) ==
    [type |-> "bannedWordsUpdate", words |-> words, message |-> <<>>,
     messageId |-> 0, scanForBannedWords |-> FALSE]

TaskMsg(message, id, scan) ==
    [type |-> "moderateMessage", words |-> <<>>, message |-> message,
     messageId |-> id, scanForBannedWords |-> scan]

\* Worker.postMessage: queued on a running thread, lost on one that exited.
PostMessage(w, msg) ==
    IF workers[w].status = "running"
    THEN [workers EXCEPT ![w].inbox = Append(@, msg)]
    ELSE workers

\* The queue bound: a post to a running worker needs room in its inbox.
CanPost(w) == workers[w].status = "running" => Len(workers[w].inbox) < MaxQueue

\* ----------------------------------------------------------------- Init

WordLists == {<<>>} \cup {<<Entry(t)>> : t \in WordTexts}

WordDocs == {[defined |-> FALSE, words |-> <<>>]}
            \cup {[defined |-> TRUE, words |-> l] : l \in WordLists}

InitWith(settingsDocs, wordDocs) ==
    /\ chatModerationSettings = DefaultSettings
    /\ bannedWords = <<>>
    /\ moderationService = 0
    /\ settingsDb \in settingsDocs
    /\ wordsDb \in wordDocs
    /\ workers = [w \in WorkerIds |-> NoWorker]
    /\ spawned = 0
    /\ errorPending = {}
    /\ permitRegistered = FALSE
    /\ pending = {}
    /\ outbox = {}
    /\ lastOp = OpOf("init", "ok", "", 0, 0, <<>>, FALSE)

\* ------------------------------------------------------ worker supervisor

\* startModerationService, pushing the word list bw to a new worker.
startModerationService(bw) ==
    IF moderationService # 0
    THEN UNCHANGED <<moderationService, workers, spawned>>
    ELSE /\ spawned < MaxWorkers
         /\ spawned' = spawned + 1
         /\ moderationService' = spawned + 1
         /\ workers' = [workers EXCEPT ![spawned + 1] =
                [status |-> "running",
                 inbox |-> <<UpdateMsg(getBannedWordsList(bw))>>,
                 words |-> <<>>]]

\* Worker.terminate(): a running thread ends and what it had queued is
\* discarded; a thread that already exited stays as it is.
Terminate(w) ==
    IF workers[w].status = "running"
    THEN [workers EXCEPT ![w] = [status |-> "terminated", inbox |-> <<>>, words |-> <<>>]]
    ELSE workers

\* stopService that terminates the worker and keeps the reference to it.
stopServiceKeepsReference ==
    /\ IF moderationService # 0
       THEN workers' = Terminate(moderationService)
       ELSE UNCHANGED workers
    /\ lastOp' = OpOf("stopService", "ok", "", 0, 0, <<>>, FALSE)
    /\ UNCHANGED <<chatModerationSettings, bannedWords, moderationService,
                   settingsDb, wordsDb, spawned, errorPending, permitRegistered,
                   pending, outbox>>

\* stopService.
stopService ==
    /\ IF moderationService # 0
       THEN /\ workers' = Terminate(moderationService)
            /\ moderationService' = 0
       ELSE UNCHANGED <<moderationService, workers>>
    /\ lastOp' = OpOf("stopService", "ok", "", 0, 0, <<>>, FALSE)
    /\ UNCHANGED <<chatModerationSettings, bannedWords, settingsDb, wordsDb,
                   spawned, errorPending, permitRegistered, pending, outbox>>

\* An uncaught exception in worker w: the thread exits and its 'error' event
\* is queued for the main thread.
WorkerFault(w) ==
    /\ workers[w].status = "running"
    /\ workers' = [workers EXCEPT ![w] =
                      [status |-> "faulted", inbox |-> <<>>, words |-> <<>>]]
    /\ errorPending' = errorPending \cup {w}
    /\ lastOp' = OpOf("workerFault", "ok", "", w, 0, <<>>, FALSE)
    /\ UNCHANGED <<chatModerationSettings, bannedWords, moderationService,
                   settingsDb, wordsDb, spawned, permitRegistered, pending, outbox>>

\* The 'error' handler with the restart it has commented out.
OnWorkerErrorRestarts(w) ==
    /\ w \in errorPending
    /\ moderationService # 0
    /\ spawned < MaxWorkers
    /\ errorPending' = errorPending \ {w}
    /\ spawned' = spawned + 1
    /\ moderationService' = spawned + 1
    /\ workers' = [workers EXCEPT ![spawned + 1] =
           [status |-> "running",
            inbox |-> <<UpdateMsg(getBannedWordsList(bannedWords))>>,
            words |-> <<>>]]
    /\ lastOp' = OpOf("onWorkerError", "ok", "", w, 0, <<>>, TRUE)
    /\ UNCHANGED <<chatModerationSettings, bannedWords, settingsDb, wordsDb,
                   permitRegistered, pending, outbox>>

\* The 'error' handler registered on worker w runs: it reads the module
\* variable moderationService, whichever worker that holds by now.
OnWorkerError(w) ==
    /\ w \in errorPending
    /\ errorPending' = errorPending \ {w}
    /\ IF moderationService = 0
       THEN /\ lastOp' = OpOf("onWorkerError", "threw", "unref", w, 0, <<>>, FALSE)
            /\ UNCHANGED moderationService
       ELSE /\ lastOp' = OpOf("onWorkerError", "ok", "", w, 0, <<>>, FALSE)
            /\ moderationService' = 0
    /\ UNCHANGED <<chatModerationSettings, bannedWords, settingsDb, wordsDb,
                   workers, spawned, permitRegistered, pending, outbox>>

\* ---------------------------------------------------------- policy store

\* The backfill of load(): exemptRoles, emoteLimit and urlModeration.
Backfill(doc) ==
    [doc EXCEPT
        !.exemptRoles = IF @.defined THEN @ ELSE ExemptRolesOf({}),
        !.emoteLimit = IF @.defined THEN @ ELSE DefaultEmoteLimit,
        !.urlModeration = IF @.defined THEN @ ELSE DefaultUrlModeration]

\* load(): read both documents inside one try (a failed read skips the rest
\* of it), then start the worker.  fail names the read that throws.
load ==
    \E fail \in {"none", "settings", "words"} :
        LET settingsRead == fail # "settings" /\ HasKeys(settingsDb)
            newSettings == IF settingsRead THEN Backfill(settingsDb)
                           ELSE chatModerationSettings
            wordsRead == fail = "none" /\ wordsDb.defined
            newWords == IF wordsRead THEN wordsDb.words ELSE bannedWords
        IN  /\ chatModerationSettings' = newSettings
            /\ permitRegistered' =
                   (permitRegistered \/ (settingsRead /\ newSettings.urlModeration.enabled))
            /\ bannedWords' = newWords
            /\ startModerationService(newWords)
            /\ lastOp' = OpOf("load", "ok",
                              IF moderationService = 0 THEN "spawned" ELSE "held",
                              0, 0, <<>>, moderationService = 0)
            /\ UNCHANGED <<settingsDb, wordsDb, errorPending, pending, outbox>>

\* The chatMessageSettingsUpdate handler: the object is taken as it comes;
\* a failed push is caught.
chatMessageSettingsUpdate(settings) ==
    /\ chatModerationSettings' = settings
    /\ settingsDb' \in {settings, settingsDb}
    /\ lastOp' = OpOf("chatMessageSettingsUpdate", "ok", "", 0, 0, <<>>, FALSE)
    /\ UNCHANGED <<bannedWords, moderationService, wordsDb, workers, spawned,
                   errorPending, permitRegistered, pending, outbox>>

\* saveBannedWordList that persists the list and posts nothing.
saveBannedWordListWithoutPost(op, bw) ==
    /\ wordsDb' \in {[defined |-> TRUE, words |-> bw], wordsDb}
    /\ UNCHANGED workers
    /\ lastOp' = OpOf(op, "ok", "", 0, 0, <<>>, FALSE)

\* saveBannedWordList after the list became bw: push (a failure is caught),
\* then post the flattened list to the held worker.
saveBannedWordList(op, bw) ==
    /\ wordsDb' \in {[defined |-> TRUE, words |-> bw], wordsDb}
    /\ IF moderationService # 0
       THEN /\ CanPost(moderationService)
            /\ workers' = PostMessage(moderationService,
                                      UpdateMsg(getBannedWordsList(bw)))
       ELSE UNCHANGED workers
    /\ lastOp' = OpOf(op, "ok", "", 0, 0, <<>>, moderationService # 0)

\* The addBannedWords handler.
addBannedWords(words) ==
    /\ Len(bannedWords) + Len(words) <= MaxWords
    /\ bannedWords' = bannedWords \o words
    /\ saveBannedWordList("addBannedWords", bannedWords \o words)
    /\ UNCHANGED <<chatModerationSettings, moderationService, settingsDb,
                   spawned, errorPending, permitRegistered, pending, outbox>>

\* The filter of the removeBannedWord handler.
KeepWord(w, wordText) == toLowerCase(w.text) # wordText

RemoveFrom(bw, wordText) == SelectSeq(bw, LAMBDA w : KeepWord(w, wordText))

\* The removeBannedWord handler.
removeBannedWord(wordText) ==
    /\ bannedWords' = RemoveFrom(bannedWords, wordText)
    /\ saveBannedWordList("removeBannedWord", RemoveFrom(bannedWords, wordText))
    /\ UNCHANGED <<chatModerationSettings, moderationService, settingsDb,
                   spawned, errorPending, permitRegistered, pending, outbox>>

\* The removeAllBannedWords handler.
removeAllBannedWords ==
    /\ bannedWords' = <<>>
    /\ saveBannedWordList("removeAllBannedWords", <<>>)
    /\ UNCHANGED <<chatModerationSettings, moderationService, settingsDb,
                   spawned, errorPending, permitRegistered, pending, outbox>>

\* ----------------------------------------------------- word scanner worker

\* Case-insensitive substring match of one banned word.
ContainsWord(text, w) ==
    /\ Len(w) > 0
    /\ \E i \in 1..(Len(text) - Len(w) + 1) :
           SubSeq(toLowerCase(text), i, i + Len(w) - 1) = toLowerCase(w)

ScanMatches(text, words) == \E k \in DOMAIN words : ContainsWord(text, words[k])

\* Worker w takes the next message of its inbox: a bannedWordsUpdate replaces
\* its word set, a moderateMessage task is scanned and a match emits
\* deleteMessage{messageId}.
WorkerStep(w) ==
    /\ workers[w].status = "running"
    /\ workers[w].inbox # <<>>
    /\ LET msg == Head(workers[w].inbox)
       IN  /\ workers' = [workers EXCEPT
                  ![w].inbox = Tail(@),
                  ![w].words = IF msg.type = "bannedWordsUpdate" THEN msg.words ELSE @]
           /\ outbox' = IF /\ msg.type = "moderateMessage"
                           /\ msg.scanForBannedWords
                           /\ ScanMatches(msg.message, workers[w].words)
                        THEN outbox \cup {msg.messageId}
                        ELSE outbox
    /\ lastOp' = OpOf("workerStep", "ok", "", w, 0, <<>>, FALSE)
    /\ UNCHANGED <<chatModerationSettings, bannedWords, moderationService,
                   settingsDb, wordsDb, spawned, errorPending, permitRegistered,
                   pending>>

\* The 'message' handler: a deleteMessage event with a message id is applied
\* on the chat transport.
OnWorkerMessage(id) ==
    /\ id \in outbox
    /\ outbox' = outbox \ {id}
    /\ lastOp' = OpOf("onWorkerMessage", "ok", "", id, IF id # 0 THEN 1 ELSE 0,
                      <<>>, FALSE)
    /\ UNCHANGED <<chatModerationSettings, bannedWords, moderationService,
                   settingsDb, wordsDb, workers, spawned, errorPending,
                   permitRegistered, pending>>

\* ---------------------------------------------------- moderation dispatcher

\* rolesManager.userIsInRole: whether the author holds a candidate role.  With
\* candidate roles undefined the resolver may throw or find nothing.
userIsInRole(roles, exemptRoles) ==
    IF exemptRoles.defined
    THEN {IF roles \cap exemptRoles.roles # {} THEN "yes" ELSE "no"}
    ELSE {"no", "throw"}

\* What viewerDB.getUserByUsername can settle to.
ViewerOf(kind, minutes) == [kind |-> kind, minutes |-> minutes]

ViewerResults ==
    {ViewerOf("error", 0), ViewerOf("none", 0), ViewerOf("user", 59),
     ViewerOf("user", 60)}

\* How a segment of moderateMessage ends: "return", "throw", "await" (the
\* viewer lookup) or "forward" (the postMessage step), with the calls made on
\* the chat transport so far.
EndOf(kind, stage, deletes, sends) ==
    [kind |-> kind, stage |-> stage, deletes |-> deletes, sends |-> sends]

\* The toggles test without its early return.
TogglesTestNoEarlyReturn(s) ==
    IF ~s.bannedWordList.defined THEN "throw"
    ELSE IF s.bannedWordList.enabled THEN "on"
    ELSE IF ~s.emoteLimit.defined THEN "throw"
    ELSE IF s.emoteLimit.enabled THEN "on"
    ELSE IF ~s.urlModeration.defined THEN "throw"
    ELSE "on"

\* The toggles test: && reads the flags left to right and stops at the first
\* enabled one; reading a flag of a missing sub-object throws.
TogglesTest(s) ==
    IF ~s.bannedWordList.defined THEN "throw"
    ELSE IF s.bannedWordList.enabled THEN "on"
    ELSE IF ~s.emoteLimit.defined THEN "throw"
    ELSE IF s.emoteLimit.enabled THEN "on"
    ELSE IF ~s.urlModeration.defined THEN "throw"
    ELSE IF s.urlModeration.enabled THEN "on"
    ELSE "off"

\* The emote-limit test with >= in place of >.
OverEmoteLimitInclusive(el, m) ==
    /\ el.enabled
    /\ el.max # 0
    /\ emoteCount(m.parts) + emojiCount(m.parts) >= el.max

\* (emoteCount + emojiCount) > max, behind enabled && !!max.
OverEmoteLimit(el, m) ==
    /\ el.enabled
    /\ el.max # 0
    /\ emoteCount(m.parts) + emojiCount(m.parts) > el.max

\* The URL deletion followed by a return.
UrlDeleteReturns(m, outputMessage) ==
    EndOf("return", "url", 1,
          IF outputMessage # <<>>
          THEN <<Replace(outputMessage, "{userName}", m.username)>>
          ELSE <<>>)

\* chat.deleteMessage, then sendChatMessage of the template if there is one.
UrlDelete(m, outputMessage) ==
    EndOf("forward", "url", 1,
          IF outputMessage # <<>>
          THEN <<Replace(outputMessage, "{userName}", m.username)>>
          ELSE <<>>)

\* The URL stage up to the viewer lookup.
UrlStage(s, m, permit) ==
    IF ~s.urlModeration.defined THEN EndOf("throw", "url", 0, <<>>)
    ELSE IF ~s.urlModeration.enabled THEN EndOf("forward", "clean", 0, <<>>)
    ELSE IF permit THEN EndOf("return", "permit", 0, <<>>)
    ELSE IF ~UrlRegexTest(m.rawText) THEN EndOf("return", "noUrl", 0, <<>>)
    ELSE IF s.urlModeration.viewTime.defined /\ s.urlModeration.viewTime.enabled
         THEN EndOf("await", "lookup", 0, <<>>)
    ELSE UrlDelete(m, s.urlModeration.outputMessage)

\* The emote-limit stage deleting and going on to the URL stage.
EmoteStageFallsThrough(s, m, permit) ==
    IF ~s.emoteLimit.defined THEN EndOf("throw", "emote", 0, <<>>)
    ELSE IF OverEmoteLimit(s.emoteLimit, m)
         THEN LET u == UrlStage(s, m, permit)
              IN  EndOf(u.kind, u.stage, 1 + u.deletes, u.sends)
    ELSE UrlStage(s, m, permit)

\* The emote-limit stage, then the URL stage.
EmoteStage(s, m, permit) ==
    IF ~s.emoteLimit.defined THEN EndOf("throw", "emote", 0, <<>>)
    ELSE IF OverEmoteLimit(s.emoteLimit, m) THEN EndOf("return", "emote", 1, <<>>)
    ELSE UrlStage(s, m, permit)

\* moderateMessage with the postMessage step outside the exemption test.
SyncStagesExemptForwarded(s, m, permit, inRole) ==
    IF m.isNull THEN EndOf("return", "null", 0, <<>>)
    ELSE IF TogglesTest(s) = "throw" THEN EndOf("throw", "toggles", 0, <<>>)
    ELSE IF TogglesTest(s) = "off" THEN EndOf("return", "allOff", 0, <<>>)
    ELSE IF inRole = "throw" THEN EndOf("throw", "roles", 0, <<>>)
    ELSE IF inRole = "yes" THEN EndOf("forward", "exempt", 0, <<>>)
    ELSE EmoteStage(s, m, permit)

\* moderateMessage that runs the stages whatever the role resolver answers.
SyncStagesIgnoreExemption(s, m, permit, inRole) ==
    IF m.isNull THEN EndOf("return", "null", 0, <<>>)
    ELSE IF TogglesTest(s) = "throw" THEN EndOf("throw", "toggles", 0, <<>>)
    ELSE IF TogglesTest(s) = "off" THEN EndOf("return", "allOff", 0, <<>>)
    ELSE IF inRole = "throw" THEN EndOf("throw", "roles", 0, <<>>)
    ELSE EmoteStage(s, m, permit)

\* moderateMessage from its entry to its first return, throw, await or to the
\* postMessage step.
SyncStages(s, m, permit, inRole) ==
    IF m.isNull THEN EndOf("return", "null", 0, <<>>)
    ELSE IF TogglesTest(s) = "throw" THEN EndOf("throw", "toggles", 0, <<>>)
    ELSE IF TogglesTest(s) = "off" THEN EndOf("return", "allOff", 0, <<>>)
    ELSE IF inRole = "throw" THEN EndOf("throw", "roles", 0, <<>>)
    ELSE IF inRole = "yes" THEN EndOf("return", "exempt", 0, <<>>)
    ELSE EmoteStage(s, m, permit)

\* The comparison of the view time with > in place of >=.
AfterLookupStrict(um, m, viewer) ==
    IF viewer.kind # "user" THEN EndOf("throw", "lookup", 0, <<>>)
    ELSE IF viewer.minutes > 60 * um.viewTime.viewTimeInHours
         THEN EndOf("return", "viewTime", 0, <<>>)
    ELSE UrlDelete(m, Replace(um.outputMessage, "{viewTime}",
                              ToString(um.viewTime.viewTimeInHours)))

\* moderateMessage after the await: um is the urlModeration object read
\* before it, viewer what the lookup settled to.
AfterLookup(um, m, viewer) ==
    IF viewer.kind # "user" THEN EndOf("throw", "lookup", 0, <<>>)
    ELSE IF viewer.minutes >= 60 * um.viewTime.viewTimeInHours
         THEN EndOf("return", "viewTime", 0, <<>>)
    ELSE UrlDelete(m, Replace(um.outputMessage, "{viewTime}",
                              ToString(um.viewTime.viewTimeInHours)))

\* The end of a segment applied to the state: the postMessage step reads the
\* worker reference and bannedWordList.enabled as they are now.
Settle(op, m, end) ==
    IF end.kind = "forward"
    THEN IF moderationService = 0 \/ ~chatModerationSettings.bannedWordList.defined
         THEN /\ lastOp' = DispatchOf(op, "threw",
                                IF moderationService = 0 THEN "post" ELSE "scanFlag",
                                m, end.deletes, end.sends, FALSE)
              /\ UNCHANGED workers
         ELSE /\ CanPost(moderationService)
              /\ workers' = PostMessage(moderationService,
                     TaskMsg(m.rawText, m.id,
                             chatModerationSettings.bannedWordList.enabled))
              /\ lastOp' = DispatchOf(op, "ok", end.stage, m, end.deletes,
                                end.sends, TRUE)
    ELSE /\ lastOp' = DispatchOf(op,
                           CASE end.kind = "throw" -> "threw"
                             [] end.kind = "await" -> "suspended"
                             [] OTHER -> "ok",
                           end.stage, m, end.deletes, end.sends, FALSE)
         /\ UNCHANGED workers

\* permitCommand.hasTemporaryPermission, which the URL stage alone calls.
hasTemporaryPermission ==
    IF chatModerationSettings.urlModeration.enabled THEN BOOLEAN ELSE {FALSE}

\* moderateMessage(m) up to its end or to its suspension in the lookup.
moderateMessage(m) ==
    \E permit \in hasTemporaryPermission :
    \E inRole \in userIsInRole(m.roles, chatModerationSettings.exemptRoles) :
        LET end == SyncStages(chatModerationSettings, m, permit, inRole)
        IN  /\ end.kind = "await" => Cardinality(pending) < MaxPending
            /\ pending' = IF end.kind = "await"
                          THEN pending \cup
                                   {[msg |-> m,
                                     settings |-> chatModerationSettings.urlModeration]}
                          ELSE pending
            /\ Settle("moderateMessage", m, end)
            /\ UNCHANGED <<chatModerationSettings, bannedWords, moderationService,
                           settingsDb, wordsDb, spawned, errorPending,
                           permitRegistered, outbox>>

\* The continuation of a suspended moderateMessage reading the urlModeration
\* settings as they are when the lookup settles.
resumeReadsCurrentSettings(p, viewer) ==
    /\ p \in pending
    /\ pending' = pending \ {p}
    /\ Settle("resume", p.msg,
              AfterLookup(chatModerationSettings.urlModeration, p.msg, viewer))
    /\ UNCHANGED <<chatModerationSettings, bannedWords, moderationService,
                   settingsDb, wordsDb, spawned, errorPending, permitRegistered,
                   outbox>>

\* The continuation of a suspended moderateMessage once the lookup settles.
resumeModerateMessage(p, viewer) ==
    /\ p \in pending
    /\ pending' = pending \ {p}
    /\ Settle("resume", p.msg, AfterLookup(p.settings, p.msg, viewer))
    /\ UNCHANGED <<chatModerationSettings, bannedWords, moderationService,
                   settingsDb, wordsDb, spawned, errorPending, permitRegistered,
                   outbox>>

\* ------------------------------------------------------- specifications

\* Banned-word scanning alone, with moderators exempt.
WordsOnly ==
    SettingsOf(BannedWordListOf(TRUE), DefaultEmoteLimit, DefaultUrlModeration,
               ExemptRolesOf({"mod"}))

\* The word lists the frontend adds.
AddInputs == {<<Entry(t)>> : t \in WordTexts}

\* The worker supervisor: the persisted settings enable banned-word scanning,
\* the persisted word list holds one word or none, the chat carries a message
\* with a banned word from an ordinary author and from a moderator, and the
\* frontend clears the word list.
Init == InitWith({WordsOnly}, {[defined |-> TRUE, words |-> l] : l \in {<<>>, <<Entry(wfoo)>>}})

Next ==
    \/ load
    \/ stopService
    \/ \E w \in WorkerIds : WorkerFault(w)
    \/ \E w \in WorkerIds : OnWorkerError(w)
    \/ \E w \in WorkerIds : WorkerStep(w)
    \/ \E id \in outbox : OnWorkerMessage(id)
    \/ removeAllBannedWords
    \/ \E m \in MessagesOf({2}) : moderateMessage(m)

Spec == Init /\ [][Next]_vars

\* The banned-word list and the worker that scans with it: any persisted word
\* list, every word-list handler, and the message with a banned word.
InitWords == InitWith({WordsOnly}, WordDocs)

NextWords ==
    \/ load
    \/ stopService
    \/ \E w \in WorkerIds : WorkerStep(w)
    \/ \E id \in outbox : OnWorkerMessage(id)
    \/ \E words \in AddInputs : addBannedWords(words)
    \/ \E t \in WordTexts : removeBannedWord(t)
    \/ removeAllBannedWords
    \/ \E m \in MessagesOf({2}) : moderateMessage(m)

SpecWords == InitWords /\ [][NextWords]_vars

\* The dispatcher over well-formed settings: every combination of the three
\* policies, with moderators exempt, as the persisted document; every message
\* body from an ordinary author and from a moderator.
UrlModerationVals ==
    {UrlModerationOf(FALSE, ViewTimeOf(FALSE, 0), <<>>),
     UrlModerationOf(TRUE, NoViewTime, <<>>),
     UrlModerationOf(TRUE, ViewTimeOf(FALSE, 1), Template),
     UrlModerationOf(TRUE, ViewTimeOf(TRUE, 1), Template),
     UrlModerationOf(TRUE, ViewTimeOf(TRUE, 0), <<>>)}

EmoteLimitVals == {EmoteLimitOf(FALSE, 1), EmoteLimitOf(TRUE, 1), EmoteLimitOf(TRUE, 0)}

PolicySettings ==
    {SettingsOf(BannedWordListOf(b), e, u, ExemptRolesOf({"mod"})) :
        b \in BOOLEAN, e \in EmoteLimitVals, u \in UrlModerationVals}

ChatMessages == MessagesOf(BodyIds) \cup {NullMessage}

InitDispatch ==
    InitWith(PolicySettings, {[defined |-> TRUE, words |-> <<Entry(wfoo)>>]})

NextDispatch ==
    \/ load
    \/ \E w \in WorkerIds : WorkerStep(w)
    \/ \E id \in outbox : OnWorkerMessage(id)
    \/ \E m \in ChatMessages : moderateMessage(m)
    \/ \E p \in pending : \E v \in ViewerResults : resumeModerateMessage(p, v)

SpecDispatch == InitDispatch /\ [][NextDispatch]_vars

\* The settings object as it comes from storage and from the frontend: every
\* sub-object present or missing in the persisted document; updates that
\* switch every policy on or off, or that miss sub-objects.
AllOn ==
    SettingsOf(BannedWordListOf(TRUE), EmoteLimitOf(TRUE, 1),
               UrlModerationOf(TRUE, ViewTimeOf(TRUE, 1), Template),
               ExemptRolesOf({"mod"}))

AllOff ==
    SettingsOf(BannedWordListOf(FALSE), EmoteLimitOf(FALSE, 1),
               UrlModerationOf(FALSE, ViewTimeOf(FALSE, 0), <<>>),
               ExemptRolesOf({"mod"}))

EmptyObject == SettingsOf(NoBannedWordList, NoEmoteLimit, NoUrlModeration, NoExemptRoles)

PartialDocs ==
    {SettingsOf(b, e, u, x) :
        b \in {NoBannedWordList, AllOn.bannedWordList},
        e \in {NoEmoteLimit, AllOn.emoteLimit},
        u \in {NoUrlModeration, AllOn.urlModeration},
        x \in {NoExemptRoles, AllOn.exemptRoles}}

UpdateDocs ==
    {AllOn, AllOff, EmptyObject,
     SettingsOf(BannedWordListOf(TRUE), NoEmoteLimit, NoUrlModeration, NoExemptRoles)}

InitSettings ==
    InitWith(PartialDocs, {[defined |-> TRUE, words |-> <<Entry(wfoo)>>]})

NextSettings ==
    \/ load
    \/ \E s \in UpdateDocs : chatMessageSettingsUpdate(s)
    \/ \E w \in WorkerIds : WorkerStep(w)
    \/ \E id \in outbox : OnWorkerMessage(id)
    \/ \E m \in MessagesOf({1, 2}) : moderateMessage(m)
    \/ \E p \in pending : \E v \in ViewerResults : resumeModerateMessage(p, v)

SpecSettings == InitSettings /\ [][NextSettings]_vars

\* URL moderation with view-time gating: a threshold of one hour or none,
\* no warning template, one naming each placeholder once and one naming the
\* author twice; banned-word scanning on or off; a plain URL and a URL with a
\* banned word in it, from an ordinary author and from a moderator.
UrlSettings ==
    {SettingsOf(BannedWordListOf(b), EmoteLimitOf(FALSE, 1),
                UrlModerationOf(TRUE, ViewTimeOf(TRUE, h), t),
                ExemptRolesOf({"mod"})) :
        b \in BOOLEAN, h \in {0, 1}, t \in {<<>>, Template, TemplateTwice}}

InitUrl == InitWith(UrlSettings, {[defined |-> TRUE, words |-> <<Entry(wfoo)>>]})

NextUrl ==
    \/ load
    \/ \E w \in WorkerIds : WorkerStep(w)
    \/ \E id \in outbox : OnWorkerMessage(id)
    \/ \E m \in MessagesOf({1, 5}) : moderateMessage(m)
    \/ \E p \in pending : \E v \in ViewerResults : resumeModerateMessage(p, v)

SpecUrl == InitUrl /\ [][NextUrl]_vars

\* ---------------------------------------------------------------- claims

DispatchOps == {"moderateMessage", "resume"}

\* The dispatch got as far as the postMessage step.
ReachedPost(op) == op.op \in DispatchOps /\ op.stage \in {"clean", "url", "post", "scanFlag"}

LiveWorkers == {w \in WorkerIds : workers[w].status = "running"}

\* C1: a dispatch that reaches the postMessage step while no worker is held
\* completes without throwing and posts nothing.
C1_PostWithoutWorkerIsDropped ==
    (ReachedPost(lastOp) /\ lastOp.held = 0)
        => (lastOp.outcome = "ok" /\ ~lastOp.posted)

\* C2: with a worker held and banned-word scanning and URL moderation both
\* enabled, a dispatch for an author without an exempt role that completes
\* without deleting the message has posted it to the worker.
C2_LiveMessageIsPosted ==
    ( /\ lastOp.op \in DispatchOps
      /\ lastOp.msg # 0
      /\ lastOp.held # 0
      /\ lastOp.outcome = "ok"
      /\ lastOp.stage # "exempt"
      /\ lastOp.deletes = 0
      /\ chatModerationSettings.bannedWordList.enabled
      /\ chatModerationSettings.urlModeration.enabled )
        => lastOp.posted

\* The last operation dispatched a message whose author holds an exempt
\* role, with some policy enabled.
ExemptDispatch ==
    /\ lastOp.op = "moderateMessage"
    /\ lastOp.msg # 0
    /\ TogglesTest(chatModerationSettings) = "on"
    /\ chatModerationSettings.exemptRoles.defined
    /\ lastOp.roles \cap chatModerationSettings.exemptRoles.roles # {}

\* C3, as claimed: with a worker held, the message of an author with an
\* exempt role is posted to the worker.
C3_ExemptAuthorIsForwarded ==
    (ExemptDispatch /\ lastOp.held # 0) => lastOp.posted

\* C3, amended: the dispatch of a message whose author holds an exempt role
\* completes without any call: no deleteMessage, no sendChatMessage, nothing
\* posted to the worker, and it does not wait for the viewer lookup.
C3_ExemptAuthorSkipsEverything ==
    ExemptDispatch =>
        /\ lastOp.outcome = "ok"
        /\ ~lastOp.posted
        /\ lastOp.deletes = 0
        /\ lastOp.sends = <<>>

\* A moderator's message was dispatched with a worker held and banned-word
\* scanning enabled, and nothing was posted.
C3_ExemptWitness ==
    /\ lastOp.op = "moderateMessage"
    /\ lastOp.stage = "exempt"
    /\ lastOp.held # 0
    /\ workers[lastOp.held].status = "running"
    /\ chatModerationSettings.bannedWordList.enabled
    /\ ~lastOp.posted

\* C4: at most one worker instance is live.
C4_AtMostOneLiveWorker == Cardinality(LiveWorkers) <= 1

\* C5: the 'error' handler of the held worker drops the reference and spawns
\* nothing; no step but load spawns a worker or sets the reference, whatever
\* messages and word-list updates arrive; load with no reference held spawns
\* one fresh running worker whose first message is the current word list.
C5_NoRestartAfterFault ==
    [][ /\ (lastOp'.op = "onWorkerError" /\ lastOp'.msg = moderationService)
              => (moderationService' = 0 /\ spawned' = spawned
                  /\ lastOp'.outcome = "ok")
        /\ lastOp'.op # "load"
              => (spawned' = spawned /\ moderationService' \in {0, moderationService})
        /\ (lastOp'.op = "load" /\ moderationService = 0)
              => /\ spawned' = spawned + 1
                 /\ moderationService' = spawned'
                 /\ workers'[spawned'] =
                        [status |-> "running",
                         inbox |-> <<UpdateMsg(getBannedWordsList(bannedWords'))>>,
                         words |-> <<>>]
                 /\ \A w \in WorkerIds \ {spawned'} : workers'[w] = workers[w] ]_vars

\* After the fault of worker 1 was handled, load spawned worker 2 and pushed a
\* word list that is not empty.
C5_RestartWitness ==
    /\ lastOp.op = "load"
    /\ lastOp.stage = "spawned"
    /\ workers[1].status = "faulted"
    /\ 1 \notin errorPending
    /\ moderationService = 2
    /\ workers[2].status = "running"
    /\ bannedWords # <<>>
    /\ workers[2].inbox = <<UpdateMsg(getBannedWordsList(bannedWords))>>

\* C6: stopService never fails and leaves no reference; a held worker is no
\* longer running afterwards; with no worker held it changes nothing.
C6_StopIdempotentTotal ==
    [][stopService =>
          /\ lastOp'.outcome = "ok"
          /\ moderationService' = 0
          /\ moderationService # 0 => workers'[moderationService].status # "running"
          /\ moderationService = 0 =>
                 UNCHANGED <<chatModerationSettings, bannedWords, moderationService,
                             settingsDb, wordsDb, workers, spawned, errorPending,
                             permitRegistered, pending, outbox>>]_vars

\* stopService ran with no worker held after one had been spawned.
C6_SecondStopWitness ==
    /\ lastOp.op = "stopService"
    /\ lastOp.held = 0
    /\ spawned > 0
    /\ moderationService = 0

\* C7: a dispatch suspended in the viewer lookup never ends by throwing at
\* the lookup.
C7_LookupNeverCrashes ==
    ~(lastOp.op = "resume" /\ lastOp.stage = "lookup" /\ lastOp.outcome = "threw")

\* C8: after removeBannedWord(t) no entry's lowercased text equals the
\* lowercased t.
C8_RemoveCaseInsensitive ==
    [][\A t \in WordTexts :
          removeBannedWord(t) =>
              \A i \in DOMAIN bannedWords' :
                  toLowerCase(bannedWords'[i].text) # toLowerCase(t)]_vars

\* C9: the settings object always has its four sub-objects.
C9_SettingsWellFormed ==
    /\ chatModerationSettings.bannedWordList.defined
    /\ chatModerationSettings.emoteLimit.defined
    /\ chatModerationSettings.urlModeration.defined
    /\ chatModerationSettings.exemptRoles.defined

\* C10: whenever the held worker is running and its inbox is drained, its
\* word set is the list of texts of the store.
C10_WorkerTracksWordList ==
    ( /\ moderationService # 0
      /\ workers[moderationService].status = "running"
      /\ workers[moderationService].inbox = <<>> )
        => workers[moderationService].words = getBannedWordsList(bannedWords)

\* The three policies are present and none is enabled.
AllDisabled(s) ==
    /\ s.bannedWordList.defined /\ ~s.bannedWordList.enabled
    /\ s.emoteLimit.defined /\ ~s.emoteLimit.enabled
    /\ s.urlModeration.defined /\ ~s.urlModeration.enabled

\* C11: with the three policies disabled, moderateMessage of any message
\* returns at the toggles test: no deleteMessage, no sendChatMessage, no
\* wait for the viewer lookup, nothing posted, and nothing of the state
\* but the record of the call changes.
C11_AllOffNoSideEffects ==
    [][(/\ lastOp'.op = "moderateMessage"
        /\ lastOp'.msg # 0
        /\ AllDisabled(chatModerationSettings))
          => /\ lastOp'.outcome = "ok"
             /\ lastOp'.stage = "allOff"
             /\ lastOp'.deletes = 0
             /\ lastOp'.sends = <<>>
             /\ ~lastOp'.posted
             /\ UNCHANGED <<chatModerationSettings, bannedWords, moderationService,
                            settingsDb, wordsDb, workers, spawned, errorPending,
                            permitRegistered, pending, outbox>>]_vars

\* With a running worker held and every policy disabled, the message of an
\* ordinary author with two emotes and a URL was dispatched and left alone.
C11_AllOffWitness ==
    /\ lastOp.op = "moderateMessage"
    /\ lastOp.stage = "allOff"
    /\ lastOp.msg = 4
    /\ lastOp.roles = {}
    /\ lastOp.held # 0
    /\ workers[lastOp.held].status = "running"
    /\ AllDisabled(chatModerationSettings)
    /\ chatModerationSettings.emoteLimit.max = 1

\* The last operation was a dispatch, or the continuation of one, for an
\* author who holds a role of exemptRoles.
AuthorExempt ==
    /\ lastOp.op \in DispatchOps
    /\ lastOp.msg # 0
    /\ chatModerationSettings.exemptRoles.defined
    /\ lastOp.roles \cap chatModerationSettings.exemptRoles.roles # {}

\* C12: for an author holding an exempt role the emote-limit and URL stages
\* are never entered: no deleteMessage, no sendChatMessage and no viewer
\* lookup, whatever the emote count, the text and the settings.
C12_ExemptNeverModerated ==
    AuthorExempt =>
        /\ lastOp.deletes = 0
        /\ lastOp.sends = <<>>
        /\ lastOp.outcome # "suspended"
        /\ lastOp.stage \notin {"emote", "url", "lookup", "viewTime"}

\* A moderator's message with two emotes and a URL was dispatched with the
\* emote limit at 1 and URL moderation enabled, and was not deleted.
C12_ExemptWitness ==
    /\ lastOp.op = "moderateMessage"
    /\ lastOp.msg = 4
    /\ lastOp.roles = {"mod"}
    /\ chatModerationSettings.exemptRoles.roles = {"mod"}
    /\ chatModerationSettings.emoteLimit.enabled
    /\ chatModerationSettings.emoteLimit.max = 1
    /\ chatModerationSettings.urlModeration.enabled
    /\ lastOp.deletes = 0

\* Emotes plus emojis of the message with the given id.
EmoteTotal(id) == emoteCount(Body(id).parts) + emojiCount(Body(id).parts)

\* The last operation dispatched a message of an author without an exempt
\* role, with the emote limit enabled and a positive max.
EmoteLimitDispatch ==
    /\ lastOp.op = "moderateMessage"
    /\ lastOp.msg # 0
    /\ chatModerationSettings.bannedWordList.defined
    /\ chatModerationSettings.emoteLimit.defined
    /\ chatModerationSettings.emoteLimit.enabled
    /\ chatModerationSettings.emoteLimit.max > 0
    /\ chatModerationSettings.exemptRoles.defined
    /\ lastOp.roles \cap chatModerationSettings.exemptRoles.roles = {}

\* C13: for an author without an exempt role, with the emote limit enabled
\* and a positive max, a count above max ends the dispatch with exactly one
\* deleteMessage, no sendChatMessage, no viewer lookup and nothing posted;
\* a count equal to or below max is not deleted by the emote-limit stage.
C13_EmoteLimitStrict ==
    EmoteLimitDispatch =>
        IF EmoteTotal(lastOp.msg) > chatModerationSettings.emoteLimit.max
        THEN /\ lastOp.stage = "emote"
             /\ lastOp.outcome = "ok"
             /\ lastOp.deletes = 1
             /\ lastOp.sends = <<>>
             /\ ~lastOp.posted
        ELSE lastOp.stage # "emote"

\* The message with two emotes and a URL was deleted by the emote-limit
\* stage with max 1, URL moderation and banned-word scanning enabled, and a
\* running worker held.
C13_EmoteWitness ==
    /\ EmoteLimitDispatch
    /\ lastOp.msg = 4
    /\ lastOp.stage = "emote"
    /\ lastOp.deletes = 1
    /\ chatModerationSettings.emoteLimit.max = 1
    /\ chatModerationSettings.urlModeration.enabled
    /\ chatModerationSettings.bannedWordList.enabled
    /\ lastOp.held # 0
    /\ workers[lastOp.held].status = "running"

\* The placeholders of a warning template.
Placeholders == {"{userName}", "{viewTime}"}

\* C14: when the viewer lookup of a suspended dispatch settles to a viewer
\* whose hours are below the threshold, the continuation calls deleteMessage
\* once and, if a template is configured, sendChatMessage once with a text in
\* which no placeholder is left, the threshold and the author's name standing
\* in their places; without a template it sends nothing.
C14_UrlDeleteWarnsOnce ==
    [][\A p \in pending : \A v \in ViewerResults :
          ( /\ resumeModerateMessage(p, v)
            /\ v.kind = "user"
            /\ v.minutes < 60 * p.settings.viewTime.viewTimeInHours )
            => /\ lastOp'.deletes = 1
               /\ IF p.settings.outputMessage = <<>>
                  THEN lastOp'.sends = <<>>
                  ELSE /\ Len(lastOp'.sends) = 1
                       /\ Len(lastOp'.sends[1]) = Len(p.settings.outputMessage)
                       /\ \A i \in DOMAIN lastOp'.sends[1] :
                              LET seg == p.settings.outputMessage[i]
                                  out == lastOp'.sends[1][i]
                              IN  CASE seg = "{userName}" -> out = p.msg.username
                                    [] seg = "{viewTime}" ->
                                         out = ToString(p.settings.viewTime.viewTimeInHours)
                                    [] OTHER -> out = seg]_vars

\* C15: when the viewer lookup of a suspended dispatch settles to a viewer
\* whose hours in channel (minutes / 60) are at or above the threshold, the
\* continuation ends normally with no deleteMessage and no sendChatMessage.
C15_EnoughViewTimeIsExempt ==
    [][\A p \in pending : \A v \in ViewerResults :
          ( /\ resumeModerateMessage(p, v)
            /\ v.kind = "user"
            /\ v.minutes >= 60 * p.settings.viewTime.viewTimeInHours )
            => /\ lastOp'.outcome = "ok"
               /\ lastOp'.deletes = 0
               /\ lastOp'.sends = <<>>]_vars

\* With a threshold of one hour, a dispatch resumed and ended at the view-time
\* test without a delete: the viewer had exactly 60 minutes.
C15_EqualityWitness ==
    /\ lastOp.op = "resume"
    /\ lastOp.stage = "viewTime"
    /\ lastOp.outcome = "ok"
    /\ lastOp.deletes = 0
    /\ chatModerationSettings.urlModeration.viewTime.viewTimeInHours = 1
    /\ chatModerationSettings.urlModeration.outputMessage # <<>>

\* The last operation was a dispatch, or the continuation of one, in which
\* the URL stage deleted the message.
UrlDeleted ==
    /\ lastOp.op \in DispatchOps
    /\ lastOp.deletes = 1
    /\ lastOp.stage # "emote"

\* C16: with a worker held and bannedWordList present, a dispatch in which
\* the URL stage deleted the message goes on to post it: the call ends
\* normally, and the newest message of a running worker's inbox is the
\* moderateMessage task with the message's text and id and with
\* scanForBannedWords equal to bannedWordList.enabled as it is now.
C16_UrlDeletedIsForwarded ==
    ( /\ UrlDeleted
      /\ lastOp.held # 0
      /\ chatModerationSettings.bannedWordList.defined )
        => /\ lastOp.outcome = "ok"
           /\ lastOp.posted
           /\ workers[lastOp.held].status = "running" =>
                  LET inbox == workers[lastOp.held].inbox
                  IN  /\ inbox # <<>>
                      /\ inbox[Len(inbox)] =
                             TaskMsg(Body(lastOp.msg).raw, lastOp.msg,
                                     chatModerationSettings.bannedWordList.enabled)

\* A dispatch suspended while banned-word scanning was enabled resumed after
\* it had been disabled, deleted the message for its URL and posted it with
\* scanForBannedWords false.
C16_ForwardWitness ==
    /\ lastOp.op = "resume"
    /\ UrlDeleted
    /\ lastOp.posted
    /\ lastOp.held # 0
    /\ workers[lastOp.held].status = "running"
    /\ chatModerationSettings.bannedWordList.defined
    /\ ~chatModerationSettings.bannedWordList.enabled
    /\ workers[lastOp.held].inbox # <<>>
    /\ ~workers[lastOp.held].inbox[Len(workers[lastOp.held].inbox)].scanForBannedWords

\* The word set worker record wk scans with when it takes the i-th message of
\* its inbox: the words of the last bannedWordsUpdate queued ahead of it, or
\* the set it has now.
WordsAt(wk, i) ==
    LET ups == {j \in 1..(i - 1) : wk.inbox[j].type = "bannedWordsUpdate"}
    IN  IF ups = {} THEN wk.words
        ELSE wk.inbox[CHOOSE j \in ups : \A k \in ups : k <= j].words

\* The word set in force for a message posted to wk now.
EndWords(wk) == WordsAt(wk, Len(wk.inbox) + 1)

WordListOps == {"addBannedWords", "removeBannedWord", "removeAllBannedWords"}

\* C17: (a) when a word-list handler returns with a running worker held, the
\* word set in force for whatever is posted next is the new list: it holds
\* the word just added, and is empty after removeAllBannedWords; (b) a
\* dispatch posts its task behind everything queued, so the task is scanned
\* with the set in force when it was posted; (c) the worker takes the oldest
\* message, which leaves the set each queued task is scanned with as it was,
\* and emits deleteMessage for a task exactly when scanning is asked for and
\* the set it has matches, never for an empty set.
C17_UpdatesAppliedInOrder ==
    [][ /\ ( /\ lastOp'.op \in WordListOps
             /\ moderationService # 0
             /\ workers[moderationService].status = "running" )
               => /\ EndWords(workers'[moderationService])
                         = getBannedWordsList(bannedWords')
                  /\ lastOp'.op = "addBannedWords" =>
                         /\ Len(bannedWords') = Len(bannedWords) + 1
                         /\ \E k \in DOMAIN EndWords(workers'[moderationService]) :
                                EndWords(workers'[moderationService])[k]
                                    = bannedWords'[Len(bannedWords')].text
                  /\ lastOp'.op = "removeAllBannedWords" =>
                         EndWords(workers'[moderationService]) = <<>>
        /\ ( /\ lastOp'.op = "moderateMessage"
             /\ lastOp'.posted
             /\ workers[lastOp'.held].status = "running" )
               => LET old == workers[lastOp'.held]
                      new == workers'[lastOp'.held]
                  IN  /\ Len(new.inbox) = Len(old.inbox) + 1
                      /\ SubSeq(new.inbox, 1, Len(old.inbox)) = old.inbox
                      /\ new.inbox[Len(new.inbox)].type = "moderateMessage"
                      /\ WordsAt(new, Len(new.inbox)) = EndWords(old)
        /\ lastOp'.op = "workerStep"
               => LET old == workers[lastOp'.msg]
                      new == workers'[lastOp'.msg]
                      head == old.inbox[1]
                  IN  /\ new.inbox = Tail(old.inbox)
                      /\ \A i \in 1..Len(new.inbox) :
                             WordsAt(new, i) = WordsAt(old, i + 1)
                      /\ EndWords(new) = EndWords(old)
                      /\ outbox' =
                             IF /\ head.type = "moderateMessage"
                                /\ head.scanForBannedWords
                                /\ ScanMatches(head.message, old.words)
                             THEN outbox \cup {head.messageId}
                             ELSE outbox
                      /\ old.words = <<>> => outbox' = outbox ]_vars

\* After removeAllBannedWords a message with a banned word was dispatched:
\* its task is queued behind the update that empties the word set, while the
\* worker still has the old set.
C17_BehindUpdateWitness ==
    /\ lastOp.op = "moderateMessage"
    /\ lastOp.posted
    /\ lastOp.held # 0
    /\ workers[lastOp.held].status = "running"
    /\ workers[lastOp.held].words # <<>>
    /\ bannedWords = <<>>
    /\ workers[lastOp.held].inbox = <<UpdateMsg(<<>>), TaskMsg(tFoo, 2, TRUE)>>

\* C18: the 'error' handler of a worker never throws, and when the worker
\* that raised the event is not the one held, the held reference stays.
C18_FaultOnlyAffectsItsWorker ==
    lastOp.op = "onWorkerError" =>
        /\ lastOp.outcome = "ok"
        /\ lastOp.held # lastOp.msg => moderationService = lastOp.held

\* C19: (a) a dispatch that suspends in the viewer lookup keeps the
\* urlModeration object of that moment, and chatMessageSettingsUpdate leaves
\* the suspended dispatches as they are; (b) when the lookup settles to a
\* viewer, the continuation deletes exactly when the viewer's hours are below
\* the kept threshold, and warns with the kept template and threshold,
\* whatever the settings are by then; (c) a dispatch made while another is
\* suspended passes the toggles test of the settings in force.
C19_SuspendedKeepsItsSettings ==
    [][ /\ (lastOp'.op = "moderateMessage" /\ lastOp'.outcome = "suspended")
              => pending' = pending \cup
                     {[msg |-> MessageOf(lastOp'.msg, lastOp'.roles,
                                         Body(lastOp'.msg).parts, Body(lastOp'.msg).raw),
                       settings |-> chatModerationSettings.urlModeration]}
        /\ lastOp'.op = "chatMessageSettingsUpdate" => pending' = pending
        /\ \A p \in pending : \A v \in ViewerResults :
              (resumeModerateMessage(p, v) /\ v.kind = "user")
                => LET below == v.minutes < 60 * p.settings.viewTime.viewTimeInHours
                   IN  /\ lastOp'.deletes = IF below THEN 1 ELSE 0
                       /\ ~(below /\ p.settings.outputMessage # <<>>)
                              => lastOp'.sends = <<>>
                       /\ (below /\ p.settings.outputMessage = Template)
                              => lastOp'.sends =
                                     << <<p.msg.username, " needs ",
                                          ToString(p.settings.viewTime.viewTimeInHours),
                                          "h">> >>
        /\ ( /\ lastOp'.op = "moderateMessage"
             /\ lastOp'.msg # 0
             /\ pending # {} )
              => /\ lastOp'.stage = "allOff"
                     <=> TogglesTest(chatModerationSettings) = "off"
                 /\ lastOp'.stage = "toggles"
                     <=> TogglesTest(chatModerationSettings) = "throw" ]_vars

\* A dispatch suspended under a threshold of one hour resumed after an update
\* had disabled every policy and emptied the template, and still deleted the
\* message and sent the warning of the settings it had read.
C19_StaleSettingsWitness ==
    /\ lastOp.op = "resume"
    /\ lastOp.deletes = 1
    /\ lastOp.sends = << <<"alice", " needs ", "1", "h">> >>
    /\ chatModerationSettings = AllOff

\* C20: one invocation of moderateMessage calls deleteMessage at most once
\* and sendChatMessage at most once; it sends only when it has deleted, and
\* only in the URL stage; a deletion by the emote-limit stage sends nothing;
\* an invocation that suspends in the viewer lookup has made no call yet.
C20_AtMostOneDeleteAndSend ==
    lastOp.op \in DispatchOps =>
        /\ lastOp.deletes <= 1
        /\ Len(lastOp.sends) <= 1
        /\ lastOp.sends # <<>> => (lastOp.deletes = 1 /\ lastOp.stage # "emote")
        /\ lastOp.stage = "emote" => lastOp.sends = <<>>
        /\ lastOp.outcome = "suspended" => (lastOp.deletes = 0 /\ lastOp.sends = <<>>)

\* With the emote limit enabled, a message at the limit was deleted by the
\* URL stage, which sent the warning.
C20_UrlAfterEmoteWitness ==
    /\ lastOp.op = "moderateMessage"
    /\ lastOp.msg = 3
    /\ chatModerationSettings.emoteLimit.enabled
    /\ chatModerationSettings.emoteLimit.max = 1
    /\ lastOp.stage = "url"
    /\ lastOp.deletes = 1
    /\ Len(lastOp.sends) = 1

====
